---------------------------- MODULE Spec2Model ----------------------------
(***************************************************************************)
(* Model of the EC2 Capacity Blocks pricing scraper (src/src/parser.py,    *)
(* src/src/scraper.py, src/src/models.py).                                 *)
(*                                                                         *)
(* Representation of Python values.  Every Python value is a record        *)
(* [k |-> kind, v |-> payload]:                                            *)
(*   "str"   a str; the payload is its text, a sequence of chunks.  A      *)
(*           chunk is one character, one markup unit (a tag such as        *)
(*           "<b>", an entity such as "&amp;") or, for region names and    *)
(*           headings, one run of text that holds no markup and neither    *)
(*           starts nor ends with whitespace.                              *)
(*   "enc"   a str whose text is the JSON encoding of the payload value    *)
(*           (what json.loads decodes).  A "str" value is text that        *)
(*           json.loads cannot decode.                                     *)
(*   "num"   a non-zero number, "null" None, "list" a list (payload: a     *)
(*           sequence of values), "obj" a dict (payload: a function from   *)
(*           keys to values).                                              *)
(* A float is [m |-> mantissa, e |-> number of decimals] with no trailing  *)
(* zero decimal, so that two floats are equal iff the records are.         *)
(* An operator that models a function which can raise returns a record     *)
(* whose field exc is "none" or the name of the exception.                 *)
(***************************************************************************)
EXTENDS Integers, Sequences, FiniteSets, TLC

VARIABLES pc, html, json_data, instance_types, metadata, outcome, arg, ret

vars == <<pc, html, json_data, instance_types, metadata, outcome, arg, ret>>

(***************************************************************************)
(* Bounds of the model.                                                    *)
(***************************************************************************)
MaxScripts == 2
MaxRows == 2

(***************************************************************************)
(* Python values.                                                          *)
(***************************************************************************)
PyStr(t)  == [k |-> "str", v |-> t]
PyEnc(x)  == [k |-> "enc", v |-> x]
PyNum     == [k |-> "num", v |-> <<>>]
PyNone    == [k |-> "null", v |-> <<>>]
PyList(s) == [k |-> "list", v |-> s]
PyDict(f) == [k |-> "obj", v |-> f]
Empty     == PyStr(<<>>)
EmptyDict == PyDict(<<>>)
EmptyList == PyList(<<>>)

IsStr(x)  == x.k \in {"str", "enc"}
IsDict(x) == x.k = "obj"
IsHashable(x) == x.k \notin {"list", "obj"}

\* The text of a str; the JSON text of an encoded value is one opaque chunk.
TextOf(x) == IF x.k = "str" THEN x.v ELSE <<"{json}">>

\* Python truthiness ("if not x").
Truthy(x) ==
    CASE x.k = "str"  -> x.v # <<>>
      [] x.k = "enc"  -> TRUE
      [] x.k = "num"  -> TRUE
      [] x.k = "null" -> FALSE
      [] x.k = "list" -> x.v # <<>>
      [] x.k = "obj"  -> DOMAIN x.v # {}

\* d.get(key, default) for a dict d.
DictGet(d, key, default) == IF key \in DOMAIN d.v THEN d.v[key] ELSE default

Range(s) == {s[i] : i \in 1..Len(s)}
At(s, i) == IF i \in 1..Len(s) THEN s[i] ELSE "<eos>"

(***************************************************************************)
(* Characters.                                                             *)
(***************************************************************************)
Digits     == {"0", "1", "2", "3", "4", "5", "6", "7", "8", "9"}
DigitComma == Digits \cup {","}
NBSP       == "&#160;"
Whitespace == {" ", "\n", "\t", NBSP}
Tags       == {"<b>", "</b>", "<br>", "<p>", "</p>"}
Entities   == ("&amp;" :> "&") @@ ("&nbsp;" :> NBSP)
DigitVal   == ("0" :> 0) @@ ("1" :> 1) @@ ("2" :> 2) @@ ("3" :> 3) @@ ("4" :> 4)
              @@ ("5" :> 5) @@ ("6" :> 6) @@ ("7" :> 7) @@ ("8" :> 8) @@ ("9" :> 9)
DigitChar  == <<"0", "1", "2", "3", "4", "5", "6", "7", "8", "9">>

(***************************************************************************)
(* clean_html (parser.py 142-148): unescape, get_text, strip.              *)
(***************************************************************************)
unescape(t) == [i \in 1..Len(t) |-> IF t[i] \in DOMAIN Entities THEN Entities[t[i]] ELSE t[i]]

IsNotTag(c) == c \notin Tags
get_text(t) == SelectSeq(t, IsNotTag)

strip(t) ==
    IF \A i \in 1..Len(t) : t[i] \in Whitespace THEN <<>>
    ELSE LET first == CHOOSE i \in 1..Len(t) :
                          t[i] \notin Whitespace /\ \A j \in 1..(i-1) : t[j] \in Whitespace
             last  == CHOOSE i \in 1..Len(t) :
                          t[i] \notin Whitespace /\ \A j \in (i+1)..Len(t) : t[j] \in Whitespace
         IN  SubSeq(t, first, last)

\* Returns [exc, text]: a falsy argument gives "", a truthy non-str raises
\* in unescape.
clean_html(x) ==
    IF ~Truthy(x) THEN [exc |-> "none", text |-> <<>>]
    ELSE IF ~IsStr(x) THEN [exc |-> "TypeError", text |-> <<>>]
    ELSE [exc |-> "none", text |-> strip(get_text(unescape(TextOf(x))))]

(***************************************************************************)
(* float(): the digits of a string of the shape d* "."? d*.                *)
(***************************************************************************)
RECURSIVE Norm(_, _)
Norm(m, e) == IF e > 0 /\ m % 10 = 0 THEN Norm(m \div 10, e - 1) ELSE [m |-> m, e |-> e]

RECURSIVE DigitsToNat(_)
DigitsToNat(ds) ==
    IF ds = <<>> THEN 0
    ELSE 10 * DigitsToNat(SubSeq(ds, 1, Len(ds) - 1)) + DigitVal[ds[Len(ds)]]

Zero == Norm(0, 0)

IsNotComma(c) == c # ","
IsDigit(c) == c \in Digits

\* float(s.replace(",", "")) for a regex group s: [exc, val].
FloatOfGroup(s) ==
    LET t  == SelectSeq(s, IsNotComma)
        ds == SelectSeq(t, IsDigit)
        fd == IF "." \in Range(t)
              THEN Len(t) - (CHOOSE i \in 1..Len(t) : t[i] = ".")
              ELSE 0
    IN  IF ds = <<>> THEN [exc |-> "ValueError", val |-> Zero]
        ELSE [exc |-> "none", val |-> Norm(DigitsToNat(ds), fd)]

(***************************************************************************)
(* The two regular expressions of parse_price_string (parser.py 155, 162). *)
(* A position is an index into the text; 0 stands for "no match".  Every   *)
(* quantifier of the two patterns is greedy and is followed by something   *)
(* its own class excludes, so the first attempt of the backtracking        *)
(* matcher at a start position is the only one that can succeed: each      *)
(* piece below consumes as much as it can.                                 *)
(***************************************************************************)
RunEnd(s, i, C) ==
    CHOOSE j \in i..(Len(s) + 1) : (\A n \in i..(j-1) : s[n] \in C) /\ At(s, j) \notin C

\* c? , [C]* , [C]+ and the literal c at position p.
Opt(s, p, c)  == IF p = 0 THEN 0 ELSE IF At(s, p) = c THEN p + 1 ELSE p
Star(s, p, C) == IF p = 0 THEN 0 ELSE RunEnd(s, p, C)
Plus(s, p, C) == IF p = 0 \/ At(s, p) \notin C THEN 0 ELSE RunEnd(s, p, C)
Lit(s, p, c)  == IF p = 0 \/ At(s, p) # c THEN 0 ELSE p + 1

\* ([\d,]+\.?\d*) at a: the position after the group.
AmountEnd(s, a) == Star(s, Opt(s, Plus(s, a, DigitComma), "."), Digits)

\* \s*USD at d: the position after it.
CurrencyEnd(s, d) == Lit(s, Lit(s, Lit(s, Star(s, d, Whitespace), "U"), "S"), "D")

\* single_pattern anchored at i: where its group starts, where the match ends.
SingleGroupStart(s, i) == Opt(s, i, "$")
SingleEnd(s, i) == CurrencyEnd(s, AmountEnd(s, SingleGroupStart(s, i)))

\* pattern (the dual form) anchored at i: where its second group starts,
\* where the match ends.
DualGroupStart(s, i) == Opt(s, Lit(s, Star(s, SingleEnd(s, i), Whitespace), "("), "$")
DualEnd(s, i) == Lit(s, CurrencyEnd(s, AmountEnd(s, DualGroupStart(s, i))), ")")

\* The text of the group that starts at a.
Group(s, a) == SubSeq(s, a, AmountEnd(s, a) - 1)

\* re.search: the leftmost start position with a match, 0 when there is none.
Leftmost(hits) == IF hits = {} THEN 0 ELSE CHOOSE i \in hits : \A j \in hits : i <= j
SearchDual(s) == Leftmost({i \in 1..Len(s) : DualEnd(s, i) # 0})
SearchSingle(s) == Leftmost({i \in 1..Len(s) : SingleEnd(s, i) # 0})

(***************************************************************************)
(* parse_price_string (parser.py 151-168): [exc, hourly, per_acc].         *)
(***************************************************************************)
PriceResult(exc, hourly, per_acc) == [exc |-> exc, hourly |-> hourly, per_acc |-> per_acc]

\* parser.py 158-160 and 165-166: the conversions of the groups.
DualPrice(hourly, per_acc) ==
    IF hourly.exc # "none" THEN PriceResult(hourly.exc, Zero, Zero)
    ELSE IF per_acc.exc # "none" THEN PriceResult(per_acc.exc, Zero, Zero)
    ELSE PriceResult("none", hourly.val, per_acc.val)

SinglePrice(hourly) ==
    IF hourly.exc # "none" THEN PriceResult(hourly.exc, Zero, Zero)
    ELSE PriceResult("none", hourly.val, Zero)

\* parser.py 156-168, given where each pattern matches the cleaned text s.
PriceOfMatch_single_first(s, dual, single) ==
    IF single # 0 THEN SinglePrice(FloatOfGroup(Group(s, SingleGroupStart(s, single))))
    ELSE PriceResult("none", Zero, Zero)

PriceOfMatch(s, dual, single) ==
    IF dual # 0 THEN DualPrice(FloatOfGroup(Group(s, SingleGroupStart(s, dual))),
                               FloatOfGroup(Group(s, DualGroupStart(s, dual))))
    ELSE IF single # 0 THEN SinglePrice(FloatOfGroup(Group(s, SingleGroupStart(s, single))))
    ELSE PriceResult("none", Zero, Zero)

PriceOfCleaned(c) ==
    IF c.exc # "none" THEN PriceResult(c.exc, Zero, Zero)
    ELSE PriceOfMatch(c.text, SearchDual(c.text), SearchSingle(c.text))

parse_price_string(price_str) == PriceOfCleaned(clean_html(price_str))

(***************************************************************************)
(* String constants of _infer_instance_info and the exact-match table.     *)
(***************************************************************************)
S_p5en     == <<"p", "5", "e", "n">>
S_p5e      == <<"p", "5", "e">>
S_p5       == <<"p", "5">>
S_p6_b300  == <<"p", "6", "-", "b", "3", "0", "0">>
S_p6_b200  == <<"p", "6", "-", "b", "2", "0", "0">>
S_u_p6e    == <<"u", "-", "p", "6", "e">>
S_p4de     == <<"p", "4", "d", "e">>
S_p4d      == <<"p", "4", "d">>
S_trn2     == <<"t", "r", "n", "2">>
S_trn1     == <<"t", "r", "n", "1">>
S_48xlarge == <<"4", "8", "x", "l", "a", "r", "g", "e">>
S_x72      == <<"x", "7", "2">>
S_x36      == <<"x", "3", "6">>
S_xlarge   == <<"x", "l", "a", "r", "g", "e">>
S_gb200    == <<"-", "g", "b", "2", "0", "0">>
Dot        == <<".">>

Info(family, accelerator, count) ==
    [family |-> family, accelerator |-> accelerator, count |-> count]

INSTANCE_TYPE_INFO ==
       (S_u_p6e \o S_gb200 \o S_x72            :> Info("P6e", "GB200", 72))
    @@ (S_u_p6e \o S_gb200 \o S_x36            :> Info("P6e", "GB200", 36))
    @@ (S_p6_b300 \o Dot \o S_48xlarge         :> Info("P6-B300", "B300", 8))
    @@ (S_p6_b200 \o Dot \o S_48xlarge         :> Info("P6-B200", "B200", 8))
    @@ (S_p5 \o Dot \o S_48xlarge              :> Info("P5", "H100", 8))
    @@ (S_p5 \o Dot \o <<"4">> \o S_xlarge     :> Info("P5", "H100", 1))
    @@ (S_p5e \o Dot \o S_48xlarge             :> Info("P5e", "H200", 8))
    @@ (S_p5en \o Dot \o S_48xlarge            :> Info("P5en", "H200", 8))
    @@ (S_p4d \o Dot \o <<"2", "4">> \o S_xlarge  :> Info("P4d", "A100", 8))
    @@ (S_p4de \o Dot \o <<"2", "4">> \o S_xlarge :> Info("P4de", "A100", 8))
    @@ (S_trn1 \o Dot \o <<"3", "2">> \o S_xlarge :> Info("Trn1", "Trainium", 16))
    @@ (S_trn2 \o Dot \o <<"3">> \o S_xlarge   :> Info("Trn2", "Trainium2", 1))
    @@ (S_trn2 \o Dot \o S_48xlarge            :> Info("Trn2", "Trainium2", 16))

REGION_NAME_TO_CODE ==
       (<<"US East (N. Virginia)">> :> "us-east-1")
    @@ (<<"US East (Ohio)">> :> "us-east-2")
    @@ (<<"US West (N. California)">> :> "us-west-1")
    @@ (<<"US West (Oregon)">> :> "us-west-2")
    @@ (<<"Africa (Cape Town)">> :> "af-south-1")
    @@ (<<"Asia Pacific (Hong Kong)">> :> "ap-east-1")
    @@ (<<"Asia Pacific (Hyderabad)">> :> "ap-south-2")
    @@ (<<"Asia Pacific (Jakarta)">> :> "ap-southeast-3")
    @@ (<<"Asia Pacific (Melbourne)">> :> "ap-southeast-4")
    @@ (<<"Asia Pacific (Mumbai)">> :> "ap-south-1")
    @@ (<<"Asia Pacific (Osaka)">> :> "ap-northeast-3")
    @@ (<<"Asia Pacific (Seoul)">> :> "ap-northeast-2")
    @@ (<<"Asia Pacific (Singapore)">> :> "ap-southeast-1")
    @@ (<<"Asia Pacific (Sydney)">> :> "ap-southeast-2")
    @@ (<<"Asia Pacific (Tokyo)">> :> "ap-northeast-1")
    @@ (<<"Canada (Central)">> :> "ca-central-1")
    @@ (<<"Canada West (Calgary)">> :> "ca-west-1")
    @@ (<<"Europe (Frankfurt)">> :> "eu-central-1")
    @@ (<<"Europe (Ireland)">> :> "eu-west-1")
    @@ (<<"Europe (London)">> :> "eu-west-2")
    @@ (<<"Europe (Milan)">> :> "eu-south-1")
    @@ (<<"Europe (Paris)">> :> "eu-west-3")
    @@ (<<"Europe (Spain)">> :> "eu-south-2")
    @@ (<<"Europe (Stockholm)">> :> "eu-north-1")
    @@ (<<"Europe (Zurich)">> :> "eu-central-2")
    @@ (<<"Israel (Tel Aviv)">> :> "il-central-1")
    @@ (<<"Middle East (Bahrain)">> :> "me-south-1")
    @@ (<<"Middle East (UAE)">> :> "me-central-1")
    @@ (<<"South America (S~ao Paulo)">> :> "sa-east-1")
    @@ (<<"South America (Sao Paulo)">> :> "sa-east-1")
    @@ (<<"Australia (Sydney)">> :> "ap-southeast-2")
    @@ (<<"Australia (Melbourne)">> :> "ap-southeast-4")
    @@ (<<"US West (Dallas Local Zone)">> :> "us-west-2-dal-1a")
    @@ (<<"Dallas Local Zone", "\n", "(US East N. Virginia)">> :> "us-east-1-dfw-2a")

(***************************************************************************)
(* _infer_instance_info (parser.py 228-256).                               *)
(***************************************************************************)
StartsWith(s, p) == Len(s) >= Len(p) /\ SubSeq(s, 1, Len(p)) = p
Contains(s, p) == \E i \in 1..(Len(s) - Len(p) + 1) : SubSeq(s, i, i + Len(p) - 1) = p

_infer_instance_info_p5_first(instance_type) ==
    IF StartsWith(instance_type, S_p5) THEN
        Info("P5", "H100", IF Contains(instance_type, S_48xlarge) THEN 8 ELSE 1)
    ELSE IF StartsWith(instance_type, S_p4d) THEN Info("P4d", "A100", 8)
    ELSE IF StartsWith(instance_type, S_trn2) THEN
        Info("Trn2", "Trainium2", IF Contains(instance_type, S_48xlarge) THEN 16 ELSE 1)
    ELSE IF StartsWith(instance_type, S_trn1) THEN Info("Trn1", "Trainium", 16)
    ELSE Info("Unknown", "Unknown", 0)

_infer_instance_info(instance_type) ==
    IF StartsWith(instance_type, S_p5en) THEN Info("P5en", "H200", 8)
    ELSE IF StartsWith(instance_type, S_p5e) THEN Info("P5e", "H200", 8)
    ELSE IF StartsWith(instance_type, S_p5) THEN
        Info("P5", "H100", IF Contains(instance_type, S_48xlarge) THEN 8 ELSE 1)
    ELSE IF StartsWith(instance_type, S_p6_b300) THEN Info("P6-B300", "B300", 8)
    ELSE IF StartsWith(instance_type, S_p6_b200) THEN Info("P6-B200", "B200", 8)
    ELSE IF StartsWith(instance_type, S_u_p6e) THEN
        IF Contains(instance_type, S_x72) THEN Info("P6e", "GB200", 72)
        ELSE IF Contains(instance_type, S_x36) THEN Info("P6e", "GB200", 36)
        ELSE Info("P6e", "GB200", 0)
    ELSE IF StartsWith(instance_type, S_p4de) THEN Info("P4de", "A100", 8)
    ELSE IF StartsWith(instance_type, S_p4d) THEN Info("P4d", "A100", 8)
    ELSE IF StartsWith(instance_type, S_trn2) THEN
        Info("Trn2", "Trainium2", IF Contains(instance_type, S_48xlarge) THEN 16 ELSE 1)
    ELSE IF StartsWith(instance_type, S_trn1) THEN Info("Trn1", "Trainium", 16)
    ELSE Info("Unknown", "Unknown", 0)

\* parser.py 210-216: the exact-match table, then the inference.
LookupInstanceInfo(instance_type) ==
    LET family == IF instance_type \in DOMAIN INSTANCE_TYPE_INFO
                  THEN INSTANCE_TYPE_INFO[instance_type].family ELSE "Unknown"
    IN  IF family = "Unknown" THEN _infer_instance_info(instance_type)
        ELSE INSTANCE_TYPE_INFO[instance_type]

(***************************************************************************)
(* Region code of a cleaned region name (parser.py 192-195).               *)
(***************************************************************************)
RegionCode_drop_fallback(region) ==
    IF region \in DOMAIN REGION_NAME_TO_CODE THEN REGION_NAME_TO_CODE[region] ELSE ""

RegionCode(region) ==
    LET region_code == IF region \in DOMAIN REGION_NAME_TO_CODE
                       THEN REGION_NAME_TO_CODE[region] ELSE ""
        region_normalized == strip(region)
    IN  IF region_code = "" THEN
            IF region_normalized \in DOMAIN REGION_NAME_TO_CODE
            THEN REGION_NAME_TO_CODE[region_normalized] ELSE "unknown"
        ELSE region_code

(***************************************************************************)
(* parse_pricing_data (parser.py 171-225).                                 *)
(***************************************************************************)
PricingEntry(region, region_code, hourly, per_acc) ==
    [region |-> region, region_code |-> region_code,
     hourly_rate_usd |-> hourly, accelerator_hourly_rate_usd |-> per_acc]

InstanceTypePricing(info, entries) ==
    [instance_family |-> info.family, accelerator_type |-> info.accelerator,
     accelerator_count |-> info.count, pricing |-> entries]

\* What one iteration of the first loop does with its row: it raises exc,
\* skips the row, or appends entry under key.
RowOutcome(exc, skip, key, entry) == [exc |-> exc, skip |-> skip, key |-> key, entry |-> entry]
NoEntry == PricingEntry(<<>>, "", Zero, Zero)
Raise(exc) == RowOutcome(exc, TRUE, Empty, NoEntry)
Skip == RowOutcome("none", TRUE, Empty, NoEntry)

PricedEntry_keep_zero_hourly(instance_type, region, price) ==
    IF price.exc # "none" THEN Raise(price.exc)
    ELSE RowOutcome("none", FALSE, instance_type,
                    PricingEntry(region, RegionCode(region), price.hourly, price.per_acc))

\* parser.py 188-202, given the parsed price.
PricedEntry(instance_type, region, price) ==
    IF price.exc # "none" THEN Raise(price.exc)
    ELSE IF price.hourly = Zero THEN Skip
    ELSE RowOutcome("none", FALSE, instance_type,
                    PricingEntry(region, RegionCode(region), price.hourly, price.per_acc))

\* parser.py 176-188, given the three fields (the region already cleaned).
FieldsEntry(instance_type, region, price_str) ==
    IF ~Truthy(instance_type) THEN Skip
    ELSE IF region.exc # "none" THEN Raise(region.exc)
    ELSE IF region.text = <<>> THEN Skip
    ELSE IF ~Truthy(price_str) THEN Skip
    ELSE PricedEntry(instance_type, region.text, parse_price_string(price_str))

\* One iteration of the first loop up to the entry (parser.py 176-202).
RowEntry(row) ==
    IF ~IsDict(row) THEN Raise("AttributeError")
    ELSE FieldsEntry(DictGet(row, "instance_type", Empty),
                     clean_html(DictGet(row, "region", Empty)),
                     DictGet(row, "price", Empty))

AppendEntry_prepend(instance_pricing, instance_type, entry) ==
    IF instance_type \notin DOMAIN instance_pricing
    THEN instance_pricing @@ (instance_type :> <<entry>>)
    ELSE [instance_pricing EXCEPT ![instance_type] = <<entry>> \o @]

\* parser.py 204-206.
AppendEntry(instance_pricing, instance_type, entry) ==
    IF instance_type \notin DOMAIN instance_pricing
    THEN instance_pricing @@ (instance_type :> <<entry>>)
    ELSE [instance_pricing EXCEPT ![instance_type] = Append(@, entry)]

\* The first loop (parser.py 175-206): [exc, pricing].
RECURSIVE GroupRows(_, _), GroupStep(_, _, _)
GroupStep(r, rest, instance_pricing) ==
    IF r.exc # "none" THEN [exc |-> r.exc, pricing |-> instance_pricing]
    ELSE IF r.skip THEN GroupRows(rest, instance_pricing)
    ELSE IF ~IsHashable(r.key) THEN [exc |-> "TypeError", pricing |-> instance_pricing]
    ELSE GroupRows(rest, AppendEntry(instance_pricing, r.key, r.entry))

GroupRows(rows, instance_pricing) ==
    IF rows = <<>> THEN [exc |-> "none", pricing |-> instance_pricing]
    ELSE GroupStep(RowEntry(Head(rows)), Tail(rows), instance_pricing)

\* The second loop (parser.py 208-223); a key that is no str has no
\* startswith.
BuildResult(instance_pricing) ==
    IF \E key \in DOMAIN instance_pricing : ~IsStr(key)
    THEN [exc |-> "AttributeError", result |-> <<>>]
    ELSE [exc |-> "none",
          result |-> [key \in DOMAIN instance_pricing |->
                         InstanceTypePricing(LookupInstanceInfo(TextOf(key)),
                                             instance_pricing[key])]]

GroupedResult(g) ==
    IF g.exc # "none" THEN [exc |-> g.exc, result |-> <<>>] ELSE BuildResult(g.pricing)

parse_pricing_data(rows) == GroupedResult(GroupRows(rows, <<>>))

(***************************************************************************)
(* extract_json_data (parser.py 75-139).                                   *)
(* The page is a sequence of segments [tag, content]; tag "json" is an     *)
(* element <script type="application/json">content</script>, which the     *)
(* pattern of line 90 finds; any other segment is invisible to it.         *)
(***************************************************************************)
Rows(exc, rows) == [exc |-> exc, rows |-> rows]
NoRows == Rows("none", <<>>)

\* The rows of an iteration followed by those of the rest of its loop; the
\* first exception ends the call.
ConcatRows(first, rest) ==
    IF first.exc # "none" THEN first
    ELSE IF rest.exc # "none" THEN rest
    ELSE Rows("none", first.rows \o rest.rows)

\* re.findall (parser.py 90-91).
IsJsonScript(seg) == seg.tag = "json"
ContentsOf(found) == [i \in 1..Len(found) |-> found[i].content]
script_matches(page) == ContentsOf(SelectSeq(page, IsJsonScript))

\* json.loads of a value: [exc, val].
json_loads(x) ==
    IF x.k = "enc" THEN [exc |-> "none", val |-> x.v]
    ELSE IF x.k = "str" THEN [exc |-> "JSONDecodeError", val |-> PyNone]
    ELSE [exc |-> "TypeError", val |-> PyNone]

RECURSIVE SetToSeq(_)
SetToSeq(S) ==
    IF S = {} THEN <<>>
    ELSE LET x == CHOOSE y \in S : TRUE IN <<x>> \o SetToSeq(S \ {x})

StrEach(t) == [i \in 1..Len(t) |-> PyStr(<<t[i]>>)]

\* "for item in x": [exc, elems].
Iterate(x) ==
    CASE x.k = "list" -> [exc |-> "none", elems |-> x.v]
      [] x.k = "obj"  -> [exc |-> "none", elems |-> StrEach(SetToSeq(DOMAIN x.v))]
      [] IsStr(x)     -> [exc |-> "none", elems |-> StrEach(TextOf(x))]
      [] OTHER        -> [exc |-> "TypeError", elems |-> <<>>]

\* '"Pricing" in heading' (parser.py 113): [exc, found].
PricingIn(heading) ==
    CASE IsStr(heading)     -> [exc |-> "none", found |-> "Pricing" \in Range(TextOf(heading))]
      [] heading.k = "list" -> [exc |-> "none", found |-> PyStr(<<"Pricing">>) \in Range(heading.v)]
      [] heading.k = "obj"  -> [exc |-> "none", found |-> "Pricing" \in DOMAIN heading.v]
      [] OTHER              -> [exc |-> "TypeError", found |-> FALSE]

\* The dict comprehension of parser.py 120: [exc, labels].
RECURSIVE RowLabels(_, _)
RowLabels(defs, labels) ==
    IF defs = <<>> THEN [exc |-> "none", labels |-> labels]
    ELSE IF ~IsDict(Head(defs)) THEN [exc |-> "TypeError", labels |-> labels]
    ELSE IF "id" \notin DOMAIN Head(defs).v THEN [exc |-> "KeyError", labels |-> labels]
    ELSE IF ~IsHashable(Head(defs).v["id"]) THEN [exc |-> "TypeError", labels |-> labels]
    ELSE RowLabels(Tail(defs),
                   (Head(defs).v["id"] :> DictGet(Head(defs), "label", Empty)) @@ labels)

RawRow(instance_type, region, price, heading) ==
    PyDict([instance_type |-> instance_type, region |-> region,
            price |-> price, heading |-> heading])

\* parser.py 129-137.
EmitRow(instance_type, region, price, heading) ==
    IF Truthy(instance_type) /\ Truthy(region) /\ Truthy(price)
    THEN Rows("none", <<RawRow(instance_type, region, price, heading)>>)
    ELSE NoRows

LabelOf_row_id(row_labels, row_id) == IF row_id \in DOMAIN row_labels THEN row_id ELSE Empty

\* parser.py 124.
LabelOf(row_labels, row_id) == IF row_id \in DOMAIN row_labels THEN row_labels[row_id] ELSE Empty

\* One iteration of the loop over table_items (parser.py 123-137).
TableItemRows(table_item, row_labels, heading) ==
    IF ~IsDict(table_item) THEN Rows("AttributeError", <<>>)
    ELSE IF ~IsHashable(DictGet(table_item, "idProperty", Empty)) THEN Rows("TypeError", <<>>)
    ELSE EmitRow(LabelOf(row_labels, DictGet(table_item, "idProperty", Empty)),
                 DictGet(table_item, "2", Empty), DictGet(table_item, "3", Empty), heading)

\* The loop over table_items (parser.py 122-137).
RECURSIVE TableRows(_, _, _)
TableRows(table_items, row_labels, heading) ==
    IF table_items = <<>> THEN NoRows
    ELSE ConcatRows(TableItemRows(Head(table_items), row_labels, heading),
                    TableRows(Tail(table_items), row_labels, heading))

\* parser.py 120-137, given the labels and the iteration of table_items.
LabelledRows(labels, items, heading) ==
    IF labels.exc # "none" THEN Rows(labels.exc, <<>>)
    ELSE IF items.exc # "none" THEN Rows(items.exc, <<>>)
    ELSE TableRows(items.elems, labels.labels, heading)

\* parser.py 120, given the iteration of row_definitions.
DefinedRows(defs, items, heading) ==
    IF defs.exc # "none" THEN Rows(defs.exc, <<>>)
    ELSE LabelledRows(RowLabels(defs.elems, <<>>), items, heading)

\* parser.py 116-137, given the table.
TableDataRows(table, heading) ==
    IF ~IsDict(table) THEN Rows("AttributeError", <<>>)
    ELSE DefinedRows(Iterate(DictGet(table, "rowDefinitions", EmptyList)),
                     Iterate(DictGet(table, "items", EmptyList)), heading)

HeadedRows_any_heading(table_data, heading, pricing) ==
    IF pricing.exc # "none" THEN Rows(pricing.exc, <<>>)
    ELSE TableDataRows(DictGet(table_data, "table", EmptyDict), heading)

\* parser.py 113-137, given the heading and the result of the substring test.
HeadedRows(table_data, heading, pricing) ==
    IF pricing.exc # "none" THEN Rows(pricing.exc, <<>>)
    ELSE IF ~pricing.found THEN NoRows
    ELSE TableDataRows(DictGet(table_data, "table", EmptyDict), heading)

\* The decoded nested document (parser.py 112-137).
DocumentRows(table_data) ==
    IF ~IsDict(table_data) THEN Rows("AttributeError", <<>>)
    ELSE HeadedRows(table_data, DictGet(table_data, "heading", Empty),
                    PricingIn(DictGet(table_data, "heading", Empty)))

\* parser.py 107-137, given the result of the second decoding.
DecodedRows(table_data) ==
    IF table_data.exc = "JSONDecodeError" THEN NoRows
    ELSE IF table_data.exc # "none" THEN Rows(table_data.exc, <<>>)
    ELSE DocumentRows(table_data.val)

\* parser.py 104-137.
JsonDataRows(json_data_str) ==
    IF ~Truthy(json_data_str) THEN NoRows ELSE DecodedRows(json_loads(json_data_str))

\* parser.py 103.
FieldsRows(fields) ==
    IF ~IsDict(fields) THEN Rows("AttributeError", <<>>)
    ELSE JsonDataRows(DictGet(fields, "jsonData", Empty))

\* One iteration of the loop over items (parser.py 102-137).
ItemRows(item) ==
    IF ~IsDict(item) THEN Rows("AttributeError", <<>>)
    ELSE FieldsRows(DictGet(item, "fields", EmptyDict))

RECURSIVE ItemsRows(_)
ItemsRows(items) ==
    IF items = <<>> THEN NoRows
    ELSE ConcatRows(ItemRows(Head(items)), ItemsRows(Tail(items)))

\* parser.py 101-102, given the iteration of items.
IteratedRows(items) ==
    IF items.exc # "none" THEN Rows(items.exc, <<>>) ELSE ItemsRows(items.elems)

\* parser.py 101.
DataRows(data) ==
    IF ~IsDict(data) THEN Rows("AttributeError", <<>>)
    ELSE IteratedRows(Iterate(DictGet(data, "items", EmptyList)))

\* parser.py 96-101, given the result of the first decoding.
OuterRows(outer_data) ==
    IF outer_data.exc = "JSONDecodeError" THEN NoRows
    ELSE IF outer_data.exc # "none" THEN Rows(outer_data.exc, <<>>)
    ELSE IF ~IsDict(outer_data.val) THEN Rows("AttributeError", <<>>)
    ELSE DataRows(DictGet(outer_data.val, "data", EmptyDict))

\* One iteration of the loop over script_matches (parser.py 95-137).
ScriptRows(script_content) == OuterRows(json_loads(script_content))

RECURSIVE ScriptsRows(_)
ScriptsRows(scripts) ==
    IF scripts = <<>> THEN NoRows
    ELSE ConcatRows(ScriptRows(Head(scripts)), ScriptsRows(Tail(scripts)))

extract_json_data(page) == ScriptsRows(script_matches(page))

(***************************************************************************)
(* Inputs of the price parser: amounts as written, the two forms of the    *)
(* price column, and strings that are irregular in one way each.           *)
(***************************************************************************)
Amount(ip, fd) == [ip |-> ip, fd |-> fd]

Amounts ==
    { Amount(0, <<>>), Amount(0, <<"0">>), Amount(5, <<>>), Amount(12, <<"5", "0">>),
      Amount(31, <<"4", "6", "4">>), Amount(3, <<"9", "3", "3">>),
      Amount(1234, <<"5", "0">>), Amount(1000000, <<>>) }

\* The number an amount denotes.
AmountValue(a) == Norm(a.ip * (10 ^ Len(a.fd)) + DigitsToNat(a.fd), Len(a.fd))

RECURSIVE IntDigits(_)
IntDigits(n) ==
    IF n < 10 THEN <<DigitChar[n + 1]>> ELSE IntDigits(n \div 10) \o <<DigitChar[(n % 10) + 1]>>

RECURSIVE WithCommas(_)
WithCommas(ds) ==
    IF Len(ds) <= 3 THEN ds
    ELSE WithCommas(SubSeq(ds, 1, Len(ds) - 3)) \o <<",">> \o SubSeq(ds, Len(ds) - 2, Len(ds))

FormatAmount(a, commas) ==
    (IF commas THEN WithCommas(IntDigits(a.ip)) ELSE IntDigits(a.ip))
    \o (IF a.fd = <<>> THEN <<>> ELSE Dot \o a.fd)

USD == <<"U", "S", "D">>
SingleString(a, commas) == <<"$">> \o FormatAmount(a, commas) \o <<" ">> \o USD
DualString(a, b, commas) ==
    SingleString(a, commas) \o <<" ", "(", "$">> \o FormatAmount(b, commas)
    \o <<" ">> \o USD \o <<")">>

IrregularPrices ==
    { <<>>,
      <<"f", "r", "e", "e">>,
      <<"$", "5">>,
      USD,
      <<"5", " ", "E", "U", "R">>,
      <<"$", "5", " ", "U", "S">>,
      <<".", " ">> \o USD,
      <<",", " ">> \o USD,
      <<"$", ",", ".", " ">> \o USD,
      <<"$", "1", ",", "2", " ">> \o USD,
      <<"1", ".", "2", ".", "3", " ">> \o USD,
      <<".", "5", " ">> \o USD,
      <<"5", ".">> \o USD,
      <<"<b>", "$", "5", " ">> \o USD \o <<"</b>">>,
      <<" ", "$", "5", "&nbsp;">> \o USD \o <<"\n">>,
      <<"$", "5", "<br>", "0", " ">> \o USD,
      <<"$", "5", " ">> \o USD \o <<" ", "(", "$", ",", " ">> \o USD \o <<")">>,
      <<"$", ",", " ">> \o USD \o <<" ", "(", "$", "3", " ">> \o USD \o <<")">>,
      <<"$", "5", " ">> \o USD \o <<" ", "(", "$", "3", " ">> \o USD,
      <<"$", "5", " ">> \o USD \o <<"(", "3">> \o USD \o <<")">>,
      <<"$", "5", " ">> \o USD \o <<" ", "(", "3", " ", "E", "U", "R", ")">>,
      <<"f", "r", "o", "m", " ", "$", "7", " ">> \o USD \o <<" ", "/", "h">> }

PriceInputs ==
    {SingleString(a, c) : a \in Amounts, c \in BOOLEAN}
    \cup {DualString(a, b, c) : a \in Amounts, b \in {Amount(0, <<>>), Amount(3, <<"9", "3", "3">>), Amount(1234, <<"5", "0">>)}, c \in BOOLEAN}
    \cup IrregularPrices

(***************************************************************************)
(* Inputs of the instance metadata resolution.                             *)
(***************************************************************************)
IdPrefixes ==
    { S_p5en, S_p5e, S_p5, S_p6_b300, S_p6_b200, <<"p", "6">>, S_u_p6e, S_p4de, S_p4d,
      <<"p", "4">>, S_trn2, S_trn1, <<"t", "r", "n">>, <<"g", "5">>, <<"P", "5">>, <<>> }

IdSuffixes ==
    { <<>>, Dot \o S_48xlarge, Dot \o <<"4">> \o S_xlarge, Dot \o <<"2", "4">> \o S_xlarge,
      Dot \o <<"3">> \o S_xlarge, Dot \o <<"3", "2">> \o S_xlarge,
      S_gb200 \o S_x72, S_gb200 \o S_x36 }

InstanceIds == {p \o x : p \in IdPrefixes, x \in IdSuffixes}

(***************************************************************************)
(* The pure functions as one-step systems: the argument is drawn in the    *)
(* initial state and the call is the only action.                          *)
(***************************************************************************)
Idle ==
    /\ html = <<>>
    /\ json_data = <<>>
    /\ instance_types = <<>>
    /\ metadata = <<>>
    /\ outcome = "none"

InitPrice ==
    /\ pc = "price"
    /\ arg \in {PyStr(t) : t \in PriceInputs}
    /\ ret = "none"
    /\ Idle

CallParsePriceString ==
    /\ pc = "price"
    /\ ret' = parse_price_string(arg)
    /\ pc' = "price_done"
    /\ UNCHANGED <<html, json_data, instance_types, metadata, outcome, arg>>

SpecPrice == InitPrice /\ [][CallParsePriceString]_vars

InitInfo ==
    /\ pc = "info"
    /\ arg \in InstanceIds
    /\ ret = "none"
    /\ Idle

CallLookupInstanceInfo ==
    /\ pc = "info"
    /\ ret' = LookupInstanceInfo(arg)
    /\ pc' = "info_done"
    /\ UNCHANGED <<html, json_data, instance_types, metadata, outcome, arg>>

SpecInfo == InitInfo /\ [][CallLookupInstanceInfo]_vars

(***************************************************************************)
(* Inputs of the pipeline: instance types, regions, prices and headings as *)
(* the page writes them, and the JSON documents built from them.           *)
(***************************************************************************)
T_p5_48xlarge   == S_p5 \o Dot \o S_48xlarge
T_p5en_24xlarge == S_p5en \o Dot \o <<"2", "4">> \o S_xlarge

R_virginia == <<"US East (N. Virginia)">>
R_ohio     == <<" ", "<b>", "US East (Ohio)", "</b>", "\n">>
R_mars     == <<"Mars (Olympus)">>
R_blank    == <<" ", "&nbsp;">>

P_dual   == DualString(Amount(31, <<"4", "6", "4">>), Amount(3, <<"9", "3", "3">>), FALSE)
P_single == SingleString(Amount(12, <<"5", "0">>), FALSE)
P_free   == <<"f", "r", "e", "e">>
P_zero   == SingleString(Amount(0, <<>>), FALSE)
P_comma  == <<",", " ">> \o USD

H_pricing == <<"P5 Instance", " ", "Pricing">>
H_feature == <<"Feature Comparison">>
H_lower   == <<"Capacity Blocks", " ", "pricing">>

R1 == PyStr(<<"r", "1">>)
R2 == PyStr(<<"r", "2">>)
R3 == PyStr(<<"r", "3">>)

RowDef(id, label) == PyDict([id |-> id, label |-> label])
TableItem(id, region, price) ==
    PyDict(("idProperty" :> id) @@ ("2" :> region) @@ ("3" :> price))
TableDoc(heading, defs, items) ==
    PyDict([heading |-> heading,
            table |-> PyDict([rowDefinitions |-> PyList(defs), items |-> PyList(items)])])
EnvelopeItem(json_data_str) == PyDict([fields |-> PyDict([jsonData |-> json_data_str])])
Envelope(items) == PyDict([data |-> PyDict([items |-> PyList(items)])])
JsonScript(content) == [tag |-> "json", content |-> content]
OtherScript(content) == [tag |-> "other", content |-> content]

\* The page of the end-to-end example: one script, one table, one row.
OneRowDoc(heading, label, region, price) ==
    TableDoc(PyStr(heading), <<RowDef(R1, PyStr(label))>>,
             <<TableItem(R1, PyStr(region), PyStr(price))>>)
OneRowScript(label, region, price) ==
    JsonScript(PyEnc(Envelope(<<EnvelopeItem(PyEnc(OneRowDoc(H_pricing, label, region, price)))>>)))

TwoRowDoc ==
    TableDoc(PyStr(H_pricing),
             <<RowDef(R1, PyStr(T_p5_48xlarge)), RowDef(R2, PyStr(T_p5en_24xlarge))>>,
             <<TableItem(R1, PyStr(R_virginia), PyStr(P_dual)),
               TableItem(R3, PyStr(R_virginia), PyStr(P_dual)),
               TableItem(R2, PyStr(R_ohio), PyStr(P_single)),
               TableItem(R1, PyStr(R_virginia), PyStr(P_single))>>)

Tabled(doc) == JsonScript(PyEnc(Envelope(<<EnvelopeItem(PyEnc(doc))>>)))

WellFormedScripts ==
    {OneRowScript(l, r, p) : l \in {T_p5_48xlarge, T_p5en_24xlarge},
                             r \in {R_virginia, R_ohio}, p \in {P_dual, P_single, P_free}}
    \cup { OneRowScript(T_p5_48xlarge, R_mars, P_dual),
           OneRowScript(T_p5_48xlarge, R_blank, P_dual),
           OneRowScript(T_p5_48xlarge, R_virginia, P_comma),
           OneRowScript(<<>>, R_virginia, P_dual),
           OneRowScript(T_p5_48xlarge, <<>>, P_dual),
           OneRowScript(T_p5_48xlarge, R_virginia, <<>>),
           Tabled(OneRowDoc(H_feature, T_p5_48xlarge, R_virginia, P_dual)),
           Tabled(OneRowDoc(H_lower, T_p5_48xlarge, R_virginia, P_dual)),
           Tabled(TwoRowDoc),
           Tabled(TableDoc(PyStr(H_pricing), <<RowDef(R1, PyStr(T_p5_48xlarge))>>,
                           <<TableItem(R1, PyNum, PyStr(P_dual))>>)),
           \* no heading, no table, no items, an item without fields
           Tabled(PyDict([table |-> PyDict([items |-> EmptyList])])),
           Tabled(PyDict([heading |-> PyStr(H_pricing)])),
           JsonScript(PyEnc(EmptyDict)),
           JsonScript(PyEnc(Envelope(<<EmptyDict, EnvelopeItem(Empty),
                                       EnvelopeItem(PyStr(<<"{", "oops">>)),
                                       EnvelopeItem(PyEnc(TwoRowDoc))>>))),
           OtherScript(PyEnc(Envelope(<<EnvelopeItem(PyEnc(TwoRowDoc))>>))),
           JsonScript(PyStr(<<"v", "a", "r", " ", "x", ";">>)) }

IllShapedScripts ==
    { JsonScript(PyEnc(EmptyList)),
      JsonScript(PyEnc(PyDict([data |-> PyNone]))),
      JsonScript(PyEnc(Envelope(<<EnvelopeItem(PyNum)>>))),
      JsonScript(PyEnc(Envelope(<<PyStr(<<"x">>)>>))),
      Tabled(EmptyList),
      Tabled(PyDict([heading |-> PyNone])),
      Tabled(PyDict([heading |-> PyStr(H_pricing), table |-> EmptyList])),
      Tabled(PyDict([heading |-> PyStr(H_pricing), table |-> PyDict([items |-> PyNone])])),
      Tabled(TableDoc(PyStr(H_pricing), <<PyDict([label |-> PyStr(T_p5_48xlarge)])>>,
                      <<TableItem(R1, PyStr(R_virginia), PyStr(P_dual))>>)) }

Scripts == WellFormedScripts \cup IllShapedScripts

SeqsUpTo(S, n) == UNION {[1..m -> S] : m \in 0..n}

Pages == SeqsUpTo(Scripts, MaxScripts)

(***************************************************************************)
(* scrape_pricing (scraper.py 32-51), one action per step.                 *)
(***************************************************************************)
SOURCE_URL == "https://aws.amazon.com/ec2/capacityblocks/pricing/"
VERSION == "1.0.0"
NoDataError == "ValueError: No pricing data found in the page"
NoParsedError == "ValueError: Failed to parse any instance type pricing"
Clock == {"2024-01-01T00:00:00Z", "2024-06-30T23:59:59Z"}

Init ==
    /\ pc = "start"
    /\ html = <<>>
    /\ json_data = <<>>
    /\ instance_types = <<>>
    /\ metadata = <<>>
    /\ outcome = "none"
    /\ arg = "none"
    /\ ret = "none"

\* fetch_page (scraper.py 17-29, 34) returns the text of the page.
FetchPage ==
    /\ pc = "start"
    /\ html' \in Pages
    /\ pc' = "fetched"
    /\ UNCHANGED <<json_data, instance_types, metadata, outcome, arg, ret>>

\* fetch_page raises (requests.get or raise_for_status).
FetchPageFails ==
    /\ pc = "start"
    /\ outcome' = "RequestException"
    /\ pc' = "done"
    /\ UNCHANGED <<html, json_data, instance_types, metadata, arg, ret>>

\* scraper.py 35.
ExtractJsonData ==
    /\ pc = "fetched"
    /\ \E r \in {extract_json_data(html)} :
           IF r.exc = "none"
           THEN json_data' = r.rows /\ pc' = "extracted" /\ UNCHANGED outcome
           ELSE outcome' = r.exc /\ pc' = "done" /\ UNCHANGED json_data
    /\ UNCHANGED <<html, instance_types, metadata, arg, ret>>

\* scraper.py 37-38.
RaiseNoData ==
    /\ pc = "extracted"
    /\ json_data = <<>>
    /\ outcome' = NoDataError
    /\ pc' = "done"
    /\ UNCHANGED <<html, json_data, instance_types, metadata, arg, ret>>

\* scraper.py 40.
ParsePricingData ==
    /\ pc = "extracted"
    /\ json_data # <<>>
    /\ \E r \in {parse_pricing_data(json_data)} :
           IF r.exc = "none"
           THEN instance_types' = r.result /\ pc' = "parsed" /\ UNCHANGED outcome
           ELSE outcome' = r.exc /\ pc' = "done" /\ UNCHANGED instance_types
    /\ UNCHANGED <<html, json_data, metadata, arg, ret>>

\* scraper.py 42-43.
RaiseNoParsed ==
    /\ pc = "parsed"
    /\ DOMAIN instance_types = {}
    /\ outcome' = NoParsedError
    /\ pc' = "done"
    /\ UNCHANGED <<html, json_data, instance_types, metadata, arg, ret>>

\* scraper.py 45-51.
ReturnPricingData ==
    /\ pc = "parsed"
    /\ DOMAIN instance_types # {}
    /\ \E now \in Clock :
           metadata' = [last_updated |-> now, source_url |-> SOURCE_URL, version |-> VERSION]
    /\ outcome' = "returned"
    /\ pc' = "done"
    /\ UNCHANGED <<html, json_data, instance_types, arg, ret>>

Next ==
    \/ FetchPage
    \/ FetchPageFails
    \/ ExtractJsonData
    \/ RaiseNoData
    \/ ParsePricingData
    \/ RaiseNoParsed
    \/ ReturnPricingData

Spec == Init /\ [][Next]_vars

(***************************************************************************)
(* parse_pricing_data on any list of row records: the rows the extractor   *)
(* emits, and rows with fields missing.                                    *)
(***************************************************************************)
RowPool ==
    {RawRow(PyStr(l), PyStr(r), PyStr(p), PyStr(H_pricing)) :
         l \in {T_p5_48xlarge, T_p5en_24xlarge},
         r \in {R_virginia, R_ohio, R_mars}, p \in {P_dual, P_single}}
    \cup { RawRow(PyStr(T_p5_48xlarge), PyStr(R_virginia), PyStr(P_free), PyStr(H_pricing)),
           RawRow(PyStr(T_p5_48xlarge), PyStr(R_virginia), PyStr(P_zero), PyStr(H_pricing)),
           RawRow(PyStr(T_p5_48xlarge), PyStr(R_virginia), PyStr(P_comma), PyStr(H_pricing)),
           RawRow(PyStr(T_p5_48xlarge), PyStr(R_blank), PyStr(P_dual), PyStr(H_pricing)),
           RawRow(PyStr(T_p5_48xlarge), PyNum, PyStr(P_dual), PyStr(H_pricing)),
           RawRow(Empty, PyStr(R_virginia), PyStr(P_dual), PyStr(H_pricing)),
           PyDict([instance_type |-> PyStr(T_p5_48xlarge)]),
           PyDict([region |-> PyStr(R_virginia), price |-> PyStr(P_dual)]),
           PyDict([instance_type |-> PyStr(T_p5_48xlarge), region |-> PyStr(R_virginia)]),
           EmptyDict }

RowLists == SeqsUpTo(RowPool, MaxRows)

InitParse ==
    /\ pc = "rows"
    /\ json_data \in RowLists
    /\ html = <<>>
    /\ instance_types = <<>>
    /\ metadata = <<>>
    /\ outcome = "none"
    /\ arg = "none"
    /\ ret = "none"

CallParsePricingData ==
    /\ pc = "rows"
    /\ \E r \in {parse_pricing_data(json_data)} :
           /\ instance_types' = r.result
           /\ outcome' = IF r.exc = "none" THEN "returned" ELSE r.exc
    /\ pc' = "rows_done"
    /\ UNCHANGED <<html, json_data, metadata, arg, ret>>

SpecParse == InitParse /\ [][CallParsePricingData]_vars

(***************************************************************************)
(* Vocabulary of the properties.                                           *)
(***************************************************************************)
RECURSIVE Concat(_)
Concat(ss) == IF ss = <<>> THEN <<>> ELSE Head(ss) \o Concat(Tail(ss))

FlatMap(s, F(_)) == Concat([i \in 1..Len(s) |-> F(s[i])])

RECURSIVE Sum(_, _)
Sum(f, S) == IF S = {} THEN 0 ELSE LET x == CHOOSE y \in S : TRUE IN f[x] + Sum(f, S \ {x})

SumOver(S, F(_)) == Sum([x \in S |-> F(x)], S)

\* The states in which extract_json_data has returned its rows.
Extracted == pc \in {"extracted", "parsed"}
\* The states in which parse_pricing_data has returned its map.
Parsed == pc = "rows_done" /\ outcome = "returned"

AllEntries(m) == UNION {Range(m[key].pricing) : key \in DOMAIN m}

\* A row survives the filtering of parse_pricing_data.
Survives(row) ==
    /\ IsDict(row)
    /\ Truthy(DictGet(row, "instance_type", Empty))
    /\ clean_html(DictGet(row, "region", Empty)).text # <<>>
    /\ Truthy(DictGet(row, "price", Empty))
    /\ parse_price_string(DictGet(row, "price", Empty)).exc = "none"
    /\ parse_price_string(DictGet(row, "price", Empty)).hourly # Zero

Survivors == SelectSeq(json_data, Survives)

(***************************************************************************)
(* C1.  extract_json_data never raises: whatever is malformed in a page    *)
(* is skipped, and the rows of the scripts that are well formed are        *)
(* emitted.  (Refuted: only a failed decoding is caught.)                  *)
(***************************************************************************)
WellShaped(script_content) == ScriptRows(script_content).exc = "none"
RowsOfWellShaped(script_content) == ScriptRows(script_content).rows

C1_ExtractNeverRaises ==
    (pc \in {"extracted", "parsed", "done"} /\ outcome # "RequestException")
        => /\ extract_json_data(html).exc = "none"
           /\ extract_json_data(html).rows =
                  FlatMap(SelectSeq(script_matches(html), WellShaped), RowsOfWellShaped)

(***************************************************************************)
(* C2.  Whenever extract_json_data returns, its rows are, in document      *)
(* order, the items of the tables whose heading contains "Pricing" for     *)
(* which the                                                               *)
(* label of the item's row definition, column "2" and column "3" are all   *)
(* non-empty; each row carries those three values and the heading.         *)
(***************************************************************************)
\* The nested documents of a page that decode at both levels.
NestedOfItem(item) ==
    IF IsDict(item) /\ IsDict(DictGet(item, "fields", EmptyDict))
       /\ DictGet(DictGet(item, "fields", EmptyDict), "jsonData", Empty).k = "enc"
    THEN <<DictGet(DictGet(item, "fields", EmptyDict), "jsonData", Empty).v>>
    ELSE <<>>

NestedOfScript(seg) ==
    IF seg.tag = "json" /\ seg.content.k = "enc" /\ IsDict(seg.content.v)
       /\ IsDict(DictGet(seg.content.v, "data", EmptyDict))
       /\ DictGet(DictGet(seg.content.v, "data", EmptyDict), "items", EmptyList).k = "list"
    THEN FlatMap(DictGet(DictGet(seg.content.v, "data", EmptyDict), "items", EmptyList).v,
                 NestedOfItem)
    ELSE <<>>

HasPricingHeading(doc) ==
    /\ IsDict(doc)
    /\ IsStr(DictGet(doc, "heading", Empty))
    /\ "Pricing" \in Range(TextOf(DictGet(doc, "heading", Empty)))

DefsOf(doc) == DictGet(DictGet(doc, "table", EmptyDict), "rowDefinitions", EmptyList).v
ItemsOf(doc) == DictGet(DictGet(doc, "table", EmptyDict), "items", EmptyList).v

\* The label the row definitions of doc give to id: that of the last
\* definition with this id, empty when there is none.
ResolvedLabel(doc, id) ==
    LET with == {j \in 1..Len(DefsOf(doc)) : DefsOf(doc)[j].v["id"] = id}
    IN  IF with = {} THEN Empty
        ELSE DictGet(DefsOf(doc)[CHOOSE j \in with : \A n \in with : n <= j], "label", Empty)

Qualifies(doc, item) ==
    /\ Truthy(ResolvedLabel(doc, DictGet(item, "idProperty", Empty)))
    /\ Truthy(DictGet(item, "2", Empty))
    /\ Truthy(DictGet(item, "3", Empty))

ExpectedRowsOfDoc(doc) ==
    IF ~HasPricingHeading(doc) THEN <<>>
    ELSE LET RowOf(item) ==
                 IF Qualifies(doc, item)
                 THEN <<RawRow(ResolvedLabel(doc, DictGet(item, "idProperty", Empty)),
                               DictGet(item, "2", Empty), DictGet(item, "3", Empty),
                               DictGet(doc, "heading", Empty))>>
                 ELSE <<>>
         IN  FlatMap(ItemsOf(doc), RowOf)

C2_RowsExactlyQualifyingItems ==
    Extracted =>
        /\ json_data = FlatMap(FlatMap(html, NestedOfScript), ExpectedRowsOfDoc)
        /\ \A i \in 1..Len(json_data) :
               "Pricing" \in Range(TextOf(json_data[i].v["heading"]))

\* A table without "Pricing" in its heading and an item with an unknown id
\* stand beside rows that are emitted.
C2_Witness ==
    /\ pc = "extracted"
    /\ html = <<Tabled(OneRowDoc(H_feature, T_p5_48xlarge, R_virginia, P_dual)), Tabled(TwoRowDoc)>>
    /\ Len(json_data) = 3

(***************************************************************************)
(* C3.  parse_price_string returns (A, B) for "$A USD ($B USD)", (A, 0.0)  *)
(* for "$A USD", with or without thousands separators in the amounts, and  *)
(* (0.0, 0.0) for a string in which neither form occurs.                   *)
(***************************************************************************)
\* g is an amount of the patterns: [\d,]+ then an optional "." then \d*.
IsAmountText(g) ==
    \E b \in 1..Len(g) :
        /\ \A i \in 1..b : g[i] \in DigitComma
        /\ \/ b = Len(g)
           \/ \A i \in (b+1)..Len(g) : g[i] \in Digits
           \/ g[b+1] = "." /\ \A i \in (b+2)..Len(g) : g[i] \in Digits

\* The single form occurs somewhere in s (the dual form begins with it).
SingleFormOccurs(s) ==
    \E a \in 1..Len(s), d \in 1..(Len(s) + 1), e \in 1..(Len(s) + 1) :
        /\ a < d /\ d <= e
        /\ IsAmountText(SubSeq(s, a, d - 1))
        /\ \A i \in d..(e-1) : s[i] \in Whitespace
        /\ <<At(s, e), At(s, e + 1), At(s, e + 2)>> = USD

C3_PriceForms ==
    pc = "price_done" =>
        /\ \A a \in Amounts, b \in Amounts, c \in BOOLEAN :
               arg = PyStr(DualString(a, b, c))
                   => ret = PriceResult("none", AmountValue(a), AmountValue(b))
        /\ \A a \in Amounts, c \in BOOLEAN :
               arg = PyStr(SingleString(a, c)) => ret = PriceResult("none", AmountValue(a), Zero)
        /\ ~SingleFormOccurs(clean_html(arg).text) => ret = PriceResult("none", Zero, Zero)
        /\ arg = PyStr(<<"$", "1", ",", "2", "3", "4", ".", "5", "0", " ", "U", "S", "D">>)
               => ret.hourly = [m |-> 12345, e |-> 1]

C3_Witness ==
    /\ pc = "price_done"
    /\ arg = PyStr(DualString(Amount(1234, <<"5", "0">>), Amount(3, <<"9", "3", "3">>), TRUE))
    /\ ret = PriceResult("none", [m |-> 12345, e |-> 1], [m |-> 3933, e |-> 3])

(***************************************************************************)
(* C4.  parse_pricing_data returns for every list of row records whose     *)
(* fields are strings: a row without a usable price is skipped.  (Refuted: *)
(* an amount without a digit, such as "," before "USD", raises.)           *)
(***************************************************************************)
FieldsAreStrings(row) == IsDict(row) /\ \A f \in DOMAIN row.v : row.v[f].k = "str"

C4_RowFailuresNeverAbort ==
    (pc = "rows_done" /\ \A i \in 1..Len(json_data) : FieldsAreStrings(json_data[i]))
        => outcome = "returned"

(***************************************************************************)
(* C5.  scrape_pricing, once the page is fetched, ends in one of three     *)
(* ways: the no-data error when no row was extracted (and then nothing     *)
(* was normalized), the no-parsed-data error when rows were extracted and  *)
(* the grouped map is empty, and otherwise the return of a PricingData     *)
(* with a non-empty map, the source URL and version "1.0.0".  (Refuted:    *)
(* the exceptions of C1 and C4 leave scrape_pricing in a fourth way.)      *)
(***************************************************************************)
C5_HardFailures ==
    (pc = "done" /\ outcome # "RequestException" /\ extract_json_data(html).exc = "none")
        => IF json_data = <<>>
           THEN outcome = NoDataError /\ instance_types = <<>>
           ELSE IF DOMAIN instance_types = {}
           THEN outcome = NoParsedError
           ELSE /\ outcome = "returned"
                /\ metadata.source_url = SOURCE_URL
                /\ metadata.version = VERSION

(***************************************************************************)
(* C6.  The metadata of an instance type is the entry of the exact-match   *)
(* table when there is one, otherwise what the first matching prefix in    *)
(* the order p5en, p5e, p5, p6-b300, p6-b200, u-p6e, p4de, p4d, trn2,      *)
(* trn1 gives, with the larger count for "48xlarge" within P5 and Trn2,    *)
(* and (Unknown, Unknown, 0) only when neither applies.                    *)
(***************************************************************************)
PrefixRule(prefix, family, accelerator) ==
    [prefix |-> prefix, family |-> family, accelerator |-> accelerator]

PrefixRules ==
    << PrefixRule(S_p5en, "P5en", "H200"), PrefixRule(S_p5e, "P5e", "H200"),
       PrefixRule(S_p5, "P5", "H100"), PrefixRule(S_p6_b300, "P6-B300", "B300"),
       PrefixRule(S_p6_b200, "P6-B200", "B200"), PrefixRule(S_u_p6e, "P6e", "GB200"),
       PrefixRule(S_p4de, "P4de", "A100"), PrefixRule(S_p4d, "P4d", "A100"),
       PrefixRule(S_trn2, "Trn2", "Trainium2"), PrefixRule(S_trn1, "Trn1", "Trainium") >>

MatchingRules(id) == {n \in 1..Len(PrefixRules) : StartsWith(id, PrefixRules[n].prefix)}
FirstRule(id) == PrefixRules[CHOOSE n \in MatchingRules(id) : \A j \in MatchingRules(id) : n <= j]
Unknown == Info("Unknown", "Unknown", 0)

C6_ResolutionOrdered ==
    pc = "info_done" =>
        /\ arg \in DOMAIN INSTANCE_TYPE_INFO => ret = INSTANCE_TYPE_INFO[arg]
        /\ (arg \notin DOMAIN INSTANCE_TYPE_INFO /\ MatchingRules(arg) # {}) =>
               /\ ret.family = FirstRule(arg).family
               /\ ret.accelerator = FirstRule(arg).accelerator
               /\ ret.family = "P5" => ret.count = IF Contains(arg, S_48xlarge) THEN 8 ELSE 1
               /\ ret.family = "Trn2" => ret.count = IF Contains(arg, S_48xlarge) THEN 16 ELSE 1
        /\ StartsWith(arg, S_p5en) => ret.family \notin {"P5e", "P5"}
        /\ StartsWith(arg, S_p5e) => ret.family # "P5"
        /\ StartsWith(arg, S_p4de) => ret.family # "P4d"
        /\ ret = Unknown <=> (arg \notin DOMAIN INSTANCE_TYPE_INFO /\ MatchingRules(arg) = {})

C6_Witness ==
    /\ pc = "info_done"
    /\ arg = S_p5en \o Dot \o <<"2", "4">> \o S_xlarge
    /\ arg \notin DOMAIN INSTANCE_TYPE_INFO
    /\ ret = Info("P5en", "H200", 8)

(***************************************************************************)
(* C7.  The region_code of an entry is the table's code for the cleaned    *)
(* name, else the table's code for the trimmed name, else "unknown"; a     *)
(* row with an unmapped region is kept, and one name has one code.         *)
(***************************************************************************)
ExpectedCode(name) ==
    IF name \in DOMAIN REGION_NAME_TO_CODE THEN REGION_NAME_TO_CODE[name]
    ELSE IF strip(name) \in DOMAIN REGION_NAME_TO_CODE THEN REGION_NAME_TO_CODE[strip(name)]
    ELSE "unknown"

C7_RegionMapping ==
    Parsed =>
        /\ \A e \in AllEntries(instance_types) : e.region_code = ExpectedCode(e.region)
        /\ \A e1 \in AllEntries(instance_types), e2 \in AllEntries(instance_types) :
               e1.region = e2.region => e1.region_code = e2.region_code
        /\ \A i \in 1..Len(json_data) :
               Survives(json_data[i]) =>
                   \E e \in Range(instance_types[json_data[i].v["instance_type"]].pricing) :
                       e.region = clean_html(json_data[i].v["region"]).text

C7_Witness ==
    /\ Parsed
    /\ \E e \in AllEntries(instance_types) : e.region = R_mars /\ e.region_code = "unknown"
    /\ \E e \in AllEntries(instance_types) :
           e.region = <<"US East (Ohio)">> /\ e.region_code = "us-east-2"

(***************************************************************************)
(* C8.  The pricing list of an instance type is the list of the surviving  *)
(* rows of that instance type, in the order of the input; a zero           *)
(* accelerator rate does not drop a row and a repeated region repeats.     *)
(***************************************************************************)
C8_OrderedSurvivors ==
    Parsed =>
        \A key \in DOMAIN instance_types :
            LET Mine(row) == Survives(row) /\ DictGet(row, "instance_type", Empty) = key
                mine == SelectSeq(json_data, Mine)
                list == instance_types[key].pricing
            IN  /\ Len(list) = Len(mine)
                /\ \A i \in 1..Len(mine) :
                       /\ list[i].region = clean_html(mine[i].v["region"]).text
                       /\ list[i].hourly_rate_usd = parse_price_string(mine[i].v["price"]).hourly
                       /\ list[i].accelerator_hourly_rate_usd
                              = parse_price_string(mine[i].v["price"]).per_acc

\* Two rows of one instance type and one region, the second with no
\* accelerator rate.
C8_Witness ==
    /\ Parsed
    /\ json_data = <<RawRow(PyStr(T_p5_48xlarge), PyStr(R_virginia), PyStr(P_dual), PyStr(H_pricing)),
                     RawRow(PyStr(T_p5_48xlarge), PyStr(R_virginia), PyStr(P_single), PyStr(H_pricing))>>
    /\ Len(instance_types[PyStr(T_p5_48xlarge)].pricing) = 2
    /\ instance_types[PyStr(T_p5_48xlarge)].pricing[2].accelerator_hourly_rate_usd = Zero

(***************************************************************************)
(* C9.  One script, one table with "Pricing" in its heading, one row       *)
(* definition (r1, L) and one item (r1, R, P): extraction followed by      *)
(* normalization gives a map with the single key L, the metadata of L and  *)
(* one entry for R and P.                                                  *)
(***************************************************************************)
ExampleLabels == {T_p5_48xlarge, T_p5en_24xlarge}
ExampleRegions == {R_virginia, R_ohio, R_mars, R_blank}
ExamplePrices == {P_dual, P_single, P_free}

ExampleEntry(region, price) ==
    PricingEntry(region, RegionCode(region), parse_price_string(PyStr(price)).hourly,
                 parse_price_string(PyStr(price)).per_acc)

\* As claimed: whatever L, R and P are, the key is L and the entry has
\* region R.  (Refuted: P may have no usable price, R is cleaned.)
C9_EndToEndAsClaimed ==
    \A l \in ExampleLabels, r \in ExampleRegions, p \in ExamplePrices :
        (pc = "parsed" /\ html = <<OneRowScript(l, r, p)>>)
            => /\ DOMAIN instance_types = {PyStr(l)}
               /\ instance_types[PyStr(l)].pricing = <<ExampleEntry(r, p)>>

\* As amended: the key is L when the cleaned R is non-empty and the hourly
\* rate of P is not zero, and the region of the entry is the cleaned R;
\* otherwise the map is empty.
C9_EndToEnd ==
    /\ \A l \in ExampleLabels, r \in ExampleRegions, p \in ExamplePrices :
           (pc = "parsed" /\ html = <<OneRowScript(l, r, p)>>)
               => IF clean_html(PyStr(r)).text # <<>> /\ parse_price_string(PyStr(p)).hourly # Zero
                  THEN /\ DOMAIN instance_types = {PyStr(l)}
                       /\ instance_types[PyStr(l)] =
                              InstanceTypePricing(LookupInstanceInfo(l),
                                                  <<ExampleEntry(clean_html(PyStr(r)).text, p)>>)
                  ELSE DOMAIN instance_types = {}
    /\ (pc = "parsed" /\ html = <<OneRowScript(T_p5_48xlarge, R_virginia, P_dual)>>)
           => instance_types[PyStr(T_p5_48xlarge)] =
                  [instance_family |-> "P5", accelerator_type |-> "H100", accelerator_count |-> 8,
                   pricing |-> <<[region |-> R_virginia, region_code |-> "us-east-1",
                                  hourly_rate_usd |-> [m |-> 31464, e |-> 3],
                                  accelerator_hourly_rate_usd |-> [m |-> 3933, e |-> 3]]>>]

C9_Witness ==
    /\ pc = "parsed"
    /\ html = <<OneRowScript(T_p5_48xlarge, R_virginia, P_dual)>>
    /\ DOMAIN instance_types = {PyStr(T_p5_48xlarge)}

(***************************************************************************)
(* C10.  In a result of parse_pricing_data no pricing list is empty, no    *)
(* hourly rate is zero, every region_code is a code of the region table    *)
(* or "unknown", the keys are the instance types of the surviving rows,    *)
(* and there are as many entries as surviving rows.                        *)
(***************************************************************************)
EntryCount(key) == Len(instance_types[key].pricing)
RegionCodes == {REGION_NAME_TO_CODE[name] : name \in DOMAIN REGION_NAME_TO_CODE}

C10_ResultInvariant ==
    Parsed =>
        /\ \A key \in DOMAIN instance_types : instance_types[key].pricing # <<>>
        /\ \A e \in AllEntries(instance_types) :
               /\ e.hourly_rate_usd # Zero
               /\ e.region_code \in RegionCodes \cup {"unknown"}
        /\ DOMAIN instance_types = {Survivors[i].v["instance_type"] : i \in 1..Len(Survivors)}
        /\ SumOver(DOMAIN instance_types, EntryCount) = Len(Survivors)
        /\ DOMAIN instance_types = {} <=> Survivors = <<>>

C10_Witness ==
    /\ Parsed
    /\ Cardinality(DOMAIN instance_types) = 2
    /\ Len(json_data) = 2

=============================================================================
